---------------------------- MODULE Spec2Model ----------------------------
(***************************************************************************)
(* The CN Service Desk voice agent (src/agent.py) and the operator         *)
(* dashboard's writes (src/frontend.py) over one account table.            *)
(*                                                                         *)
(* A call session is an ITSupportAgent holding one ITSupportData record;   *)
(* the conversational model may call the agent's function tools in any     *)
(* order, so every tool is an action enabled whenever the session is not   *)
(* inside another tool.  Tools are coroutines: a tool that awaits the      *)
(* store twice (reset_password) is two steps, and other sessions and the   *)
(* dashboard may run between them.                                         *)
(*                                                                         *)
(* Python str values without string operations are TLA+ strings; None is   *)
(* the value None below.  Texts on which the code calls lower(), `in` or   *)
(* startswith() are sequences of one-character strings.                    *)
(***************************************************************************)
EXTENDS Integers, Sequences, FiniteSets, TLC

VARIABLES
    store,        \* the account table: a sequence of rows
    now,          \* the store's CURRENT_TIMESTAMP, a logical clock
    user_data,    \* user_data[s]: the ITSupportData of session s
    pc,           \* pc[s]: the frame of the tool s is suspended in, or Idle
    last,         \* history: the most recent tool call and what it returned
    verified,     \* history: verify_security_questions has succeeded in s
    transferred,  \* history: a SIP transfer has been issued for s
    stale,        \* history: the row s loaded was written by someone else since
    confirm_delete, \* the dashboard's st.session_state.confirm_delete
    pool,         \* the worker's global connection pool, or NoPool
    created,      \* history: the number of pools create_pool has made
    ep            \* ep[s]: where the entrypoint of call s is

vars == <<store, now, user_data, pc, last, verified, transferred, stale,
          confirm_delete, pool, created, ep>>

(***************************************************************************)
(* Bounds                                                                  *)
(***************************************************************************)
\* Store writes per behaviour: each write advances the clock by one.
MaxClock == 2

\* Rows the account table holds at most.
MaxRows == 2

\* Concurrent calls handled by the worker.
Sessions == {"call1", "call2"}

None == "None"

\* `pool = None` of line 23: no pool yet.  Pools are numbered from 1 in the
\* order create_pool makes them.
NoPool == 0

\* A text, as a sequence of characters.
NoneText == <<"<None>">>

(***************************************************************************)
(* Texts                                                                   *)
(***************************************************************************)
UpperCase == <<"A","B","C","D","E","F","G","H","I","J","K","L","M",
               "N","O","P","Q","R","S","T","U","V","W","X","Y","Z">>
LowerCase == <<"a","b","c","d","e","f","g","h","i","j","k","l","m",
               "n","o","p","q","r","s","t","u","v","w","x","y","z">>

\* str.lower() of one character, then of a text.
LowerChar(c) ==
    IF \E i \in 1..26 : UpperCase[i] = c
    THEN LowerCase[CHOOSE i \in 1..26 : UpperCase[i] = c]
    ELSE c

lower(t) == [i \in 1..Len(t) |-> LowerChar(t[i])]

\* `sub in t` of Python str.
contains(sub, t) ==
    \E i \in 0..(Len(t) - Len(sub)) :
        \A j \in 1..Len(sub) : t[i + j] = sub[j]

\* t.startswith(prefix)
startswith(t, prefix) ==
    /\ Len(prefix) <= Len(t)
    /\ \A j \in 1..Len(prefix) : t[j] = prefix[j]

(***************************************************************************)
(* Replies: the text a tool returns, with the values formatted into it.    *)
(* A tool that lets an exception escape returns Raised(kind).              *)
(***************************************************************************)
Reply(text, args) == [kind |-> "return", text |-> text, args |-> args]
Raised(exc) == [kind |-> "raise", text |-> exc, args |-> <<>>]
Awaiting == [kind |-> "await", text |-> "", args |-> <<>>]

MsgPinNotFound == Reply("I'm sorry, but I couldn't find any account with that PIN number. Could you please verify and provide the correct PIN?", <<>>)
MsgPinFound(name, phone) == Reply("I found your account. Could you please confirm if your name is {name} and your phone number is {phone_number}?", <<name, phone>>)
MsgLocationRetry == Reply("Please specify if you're at home or office.", <<>>)
MsgLocationSet == Reply("Thank you for confirming your location. What technical issue are you experiencing today?", <<>>)
MsgIssueLocked == Reply("I understand your account is locked. To help you unlock it, I'll need to verify some security information. Could you please provide your postal code?", <<>>)
MsgIssueNotLocked == Reply("I see that your account is actually active. Is there something else I can help you with?", <<>>)
MsgIssuePassword == Reply("I'll help you reset your password. First, I need to verify your identity. Could you please provide your postal code?", <<>>)
MsgIssueOther == Reply("I understand you're experiencing a different issue. Let me transfer you to one of our technical specialists who can help you better.", <<>>)
MsgPinFirst == Reply("Please provide your PIN number first.", <<>>)
MsgSecurityOk == Reply("Security verification successful. All information matches our records.", <<>>)
MsgSecurityFail == Reply("I'm sorry, but the security information provided doesn't match our records. Please try again.", <<>>)
MsgNotLocked == Reply("Your account is not locked. Is there something else I can help you with?", <<>>)
MsgUnlocked == Reply("Your account has been successfully unlocked. You can now log in with your regular password.", <<>>)
MsgNeedPassword == Reply("Please provide a new password.", <<>>)
MsgPasswordReset == Reply("Your password has been successfully reset. You can now log in with your new password.", <<>>)
MsgTransferUnable == Reply("I'm unable to transfer your call right now. Please call our specialist line directly at extension 5555 for advanced technical support.", <<>>)
MsgTransferEscalate == Reply("I'll need to escalate this to a specialist. Please call our specialist line directly at extension 5555.", <<>>)
MsgTransferring == Reply("I'm transferring you to one of our technical specialists who can help you further. Please hold while I connect you.", <<>>)

(***************************************************************************)
(* The account store                                                       *)
(***************************************************************************)
AccountStatuses == {"active", "locked", "suspended", "pending"}

\* The sample account of the schema script, with any of the four statuses.
SampleRow(status) ==
    [pin |-> "1234", name |-> "John Doe", phone_number |-> "+1-555-0123",
     account_status |-> status, password |-> "hashed_password_here",
     postal_code |-> "12345", date_of_birth |-> "01/01/1990",
     sin_last_three |-> "123", updated_at |-> 0]

\* SELECT * FROM user_accounts WHERE pin = $1: fetchrow gives the first
\* matching row, or None; here <<row>> or <<>>.
verify_user_pin(tbl, pin) ==
    IF \E i \in 1..Len(tbl) : tbl[i].pin = pin
    THEN <<tbl[CHOOSE i \in 1..Len(tbl) :
                  /\ tbl[i].pin = pin
                  /\ \A j \in 1..(i - 1) : tbl[j].pin # pin]>>
    ELSE <<>>

\* Whether an UPDATE ... WHERE pin = $2 changes any row.
RowsMatched(tbl, pin) == \E i \in 1..Len(tbl) : tbl[i].pin = pin

\* The UPDATE setting the timestamp only.
update_account_status_stamp_only(tbl, pin, status, t) ==
    [i \in 1..Len(tbl) |->
        IF tbl[i].pin = pin
        THEN [tbl[i] EXCEPT !.updated_at = t]
        ELSE tbl[i]]

\* UPDATE user_accounts SET account_status = $1, updated_at = CURRENT_TIMESTAMP WHERE pin = $2
update_account_status(tbl, pin, status, t) ==
    [i \in 1..Len(tbl) |->
        IF tbl[i].pin = pin
        THEN [tbl[i] EXCEPT !.account_status = status, !.updated_at = t]
        ELSE tbl[i]]

\* UPDATE user_accounts SET password = $1, updated_at = CURRENT_TIMESTAMP WHERE pin = $2
update_password(tbl, pin, new_password, t) ==
    [i \in 1..Len(tbl) |->
        IF tbl[i].pin = pin
        THEN [tbl[i] EXCEPT !.password = new_password, !.updated_at = t]
        ELSE tbl[i]]

(***************************************************************************)
(* Session data                                                            *)
(***************************************************************************)
\* ITSupportData(ctx=ctx): every field but ctx is None.
ITSupportData ==
    [pin |-> None, name |-> None, phone_number |-> None,
     account_status |-> None, password |-> None, postal_code |-> None,
     date_of_birth |-> None, sin_last_three |-> None,
     location |-> NoneText, issue_type |-> None]

\* The coroutine frame of a session: where it is suspended and the
\* new_password argument it holds.
Idle == [at |-> "idle", new_password |-> None]
Suspended(new_password) == [at |-> "update_account_status", new_password |-> new_password]

\* The environment of one transfer: HUMAN_AGENT_PHONE, whether the job
\* context has a room, the room's remote participants, and whether the
\* telephony backend accepts the request.
TransferEnv(phone, has_room, participants, backend_ok) ==
    [phone |-> phone, has_room |-> has_room, participants |-> participants,
     backend_ok |-> backend_ok]

NoEnv == TransferEnv(None, FALSE, <<>>, FALSE)

\* No TransferSIPParticipantRequest sent; a request sent is <<identity>>.
NoRequest == <<>>

NoCall == [sess |-> None, op |-> None, args |-> <<>>, text |-> NoneText,
           env |-> NoEnv, request |-> NoRequest, result |-> Raised(None),
           wrote |-> {}]

\* A call with str arguments `args`; a text argument is added by TextCall.
Call(s, op, args, result, wrote) ==
    [sess |-> s, op |-> op, args |-> args, text |-> NoneText, env |-> NoEnv,
     request |-> NoRequest, result |-> result, wrote |-> wrote]

TextCall(s, op, text, result) ==
    [Call(s, op, <<>>, result, {}) EXCEPT !.text = text]

\* Sessions other than s that hold the row of `pin`: a write to that row
\* makes what they loaded out of date.
MarkStale(s, pin) ==
    [t \in Sessions |->
        IF t # s /\ user_data[t].pin = pin THEN TRUE ELSE stale[t]]

\* The worker has started its calls (the entrypoints have run) and the
\* operator has opened the dashboard.
Init ==
    /\ \E status \in AccountStatuses : store = <<SampleRow(status)>>
    /\ now = 0
    /\ user_data = [s \in Sessions |-> ITSupportData]
    /\ pc = [s \in Sessions |-> Idle]
    /\ last = NoCall
    /\ verified = [s \in Sessions |-> FALSE]
    /\ transferred = [s \in Sessions |-> FALSE]
    /\ stale = [s \in Sessions |-> FALSE]
    /\ confirm_delete = FALSE
    /\ pool = 1
    /\ created = 1
    /\ ep = [s \in Sessions |-> "running"]


(***************************************************************************)
(* Inputs                                                                  *)
(***************************************************************************)
\* PINs a caller may say: the sample account's, and one that matches no row.
PinInputs == {"1234", "0000"}

PostalInputs == {"12345", "54321"}
DobInputs == {"01/01/1990", "02/02/1992"}
SinInputs == {"123", "321"}

\* New passwords a caller may give; "" is the empty string.
PasswordInputs == {"", "hunter2"}

LocationInputs ==
    { <<"h","o","m","e">>, <<"O","f","f","i","c","e">>, <<"c","a","f","e">>, <<>> }

IssueInputs ==
    { <<"L","o","c","k","e","d">>,
      <<"r","e","s","e","t"," ","l","o","c","k">>,
      <<"P","a","s","s","w","o","r","d">>,
      <<"v","p","n">> }

\* HUMAN_AGENT_PHONE: unset (os.getenv gives None) or a number.
PhoneInputs == {None, "", "+15550100"}

\* room.remote_participants.values(): the identities, in order.
ParticipantInputs ==
    { <<>>,
      << <<>> >>,
      << <<"s","i","p","_","1">> >>,
      << <<"a","g","e","n","t">>, <<"+","1","5","5","5">> >>,
      << <<"t","e","l",":","9">> >>,
      << <<>>, <<"s","i","p","_","1">> >>,
      << <<"s","i","p","_","1">>, <<"t","e","l",":","9">>, <<"+","1","5","5","5">> >> }

\* Every environment of a transfer.
TransferInputs ==
    { TransferEnv(phone, has_room, participants, backend_ok) :
        phone \in PhoneInputs, has_room \in BOOLEAN,
        participants \in ParticipantInputs, backend_ok \in BOOLEAN }

\* One environment for each way a transfer can end.
TransferScenarios ==
    { TransferEnv("+15550100", TRUE, << <<"+","1","5","5","5">> >>, TRUE),
      TransferEnv(None, TRUE, << <<"+","1","5","5","5">> >>, TRUE),
      TransferEnv("+15550100", TRUE, <<>>, TRUE),
      TransferEnv("+15550100", TRUE, << <<"+","1","5","5","5">> >>, FALSE) }

(***************************************************************************)
(* The agent's function tools                                              *)
(***************************************************************************)
\* `not x` for a Python str or None.
falsy(x) == x = None \/ x = ""

\* A tool runs in a call whose entrypoint has started the session (line 257);
\* it touches neither the dashboard's widget state nor the worker's pool.
in_call(s) ==
    /\ ep[s] = "running"
    /\ UNCHANGED <<confirm_delete, pool, created, ep>>

\* The assignments with the last one lost: the SIN digits stay as they were.
load_account_without_sin(u, pin_number, user_details) ==
    [u EXCEPT !.pin = pin_number,
              !.name = user_details.name,
              !.phone_number = user_details.phone_number,
              !.account_status = user_details.account_status,
              !.password = user_details.password,
              !.postal_code = user_details.postal_code,
              !.date_of_birth = user_details.date_of_birth]

\* The load done by building a new ITSupportData, which drops what the
\* session had recorded.
load_account_into_fresh_data(u, pin_number, user_details) ==
    [ITSupportData EXCEPT !.pin = pin_number,
              !.name = user_details.name,
              !.phone_number = user_details.phone_number,
              !.account_status = user_details.account_status,
              !.password = user_details.password,
              !.postal_code = user_details.postal_code,
              !.date_of_birth = user_details.date_of_birth,
              !.sin_last_three = user_details.sin_last_three]

\* The assignments of lines 110-117: the session data after a row is found.
load_account(u, pin_number, user_details) ==
    [u EXCEPT !.pin = pin_number,
              !.name = user_details.name,
              !.phone_number = user_details.phone_number,
              !.account_status = user_details.account_status,
              !.password = user_details.password,
              !.postal_code = user_details.postal_code,
              !.date_of_birth = user_details.date_of_birth,
              !.sin_last_three = user_details.sin_last_three]

\* lines 103-119
verify_pin_and_get_details(s, pin_number, db_ok) ==
    /\ pc[s] = Idle
    /\ in_call(s)
    /\ LET found == verify_user_pin(store, pin_number) IN
       IF ~db_ok THEN
          /\ last' = Call(s, "verify_pin_and_get_details", <<pin_number>>,
                          Raised("StoreError"), {})
          /\ UNCHANGED <<user_data, stale>>
       ELSE IF found = <<>> THEN
          /\ last' = Call(s, "verify_pin_and_get_details", <<pin_number>>,
                          MsgPinNotFound, {})
          /\ UNCHANGED <<user_data, stale>>
       ELSE
          /\ user_data' = [user_data EXCEPT ![s] = load_account(@, pin_number, found[1])]
          /\ stale' = [stale EXCEPT ![s] = FALSE]
          /\ last' = Call(s, "verify_pin_and_get_details", <<pin_number>>,
                          MsgPinFound(found[1].name, found[1].phone_number), {})
    /\ UNCHANGED <<store, now, pc, verified, transferred>>

\* The test of line 124.
location_accepted(location) ==
    lower(location) \in {<<"h","o","m","e">>, <<"o","f","f","i","c","e">>}

\* The value recorded as the caller said it.
location_recorded_as_given(location) == location

\* The value line 127 records.
location_recorded(location) == lower(location)

\* lines 121-128
set_location(s, location) ==
    /\ pc[s] = Idle
    /\ in_call(s)
    /\ IF ~location_accepted(location)
       THEN /\ last' = TextCall(s, "set_location", location, MsgLocationRetry)
            /\ UNCHANGED user_data
       ELSE /\ user_data' = [user_data EXCEPT ![s].location = location_recorded(location)]
            /\ last' = TextCall(s, "set_location", location, MsgLocationSet)
    /\ UNCHANGED <<store, now, pc, verified, transferred, stale>>

\* The category set_issue_type records for a text (lines 133-144).
issue_category(issue) ==
    LET low == lower(issue) IN
    IF contains(<<"l","o","c","k">>, low) \/ contains(<<"l","o","c","k","e","d">>, low)
    THEN "account_locked"
    ELSE IF contains(<<"p","a","s","s","w","o","r","d">>, low)
            \/ contains(<<"r","e","s","e","t">>, low)
    THEN "password_reset"
    ELSE "other"

\* The reply with the password_reset branch lost: the announcement of a
\* transfer for everything that is not a lock.
issue_reply_without_password_branch(category, account_status) ==
    IF category = "account_locked"
    THEN IF account_status = "locked" THEN MsgIssueLocked ELSE MsgIssueNotLocked
    ELSE MsgIssueOther

\* The reply of set_issue_type for a category and the cached status.
issue_reply(category, account_status) ==
    IF category = "account_locked"
    THEN IF account_status = "locked" THEN MsgIssueLocked ELSE MsgIssueNotLocked
    ELSE IF category = "password_reset" THEN MsgIssuePassword
    ELSE MsgIssueOther

\* lines 130-145
set_issue_type(s, issue) ==
    /\ pc[s] = Idle
    /\ in_call(s)
    /\ user_data' = [user_data EXCEPT ![s].issue_type = issue_category(issue)]
    /\ last' = TextCall(s, "set_issue_type", issue,
                    issue_reply(issue_category(issue), user_data[s].account_status))
    /\ UNCHANGED <<store, now, pc, verified, transferred, stale>>

\* The comparison with the SIN digits left out.
security_answers_match_without_sin(u, postal_code, date_of_birth, sin_last_three) ==
    /\ postal_code = u.postal_code
    /\ date_of_birth = u.date_of_birth

\* The comparison of lines 153-155.
security_answers_match(u, postal_code, date_of_birth, sin_last_three) ==
    /\ postal_code = u.postal_code
    /\ date_of_birth = u.date_of_birth
    /\ sin_last_three = u.sin_last_three

\* The reply with the failure text naming the first answer that is wrong.
security_reply_naming_field(u, postal_code, date_of_birth, sin_last_three) ==
    IF falsy(u.pin) THEN MsgPinFirst
    ELSE IF security_answers_match(u, postal_code, date_of_birth, sin_last_three)
    THEN MsgSecurityOk
    ELSE Reply("Security verification failed: {} does not match.",
               << IF postal_code # u.postal_code THEN "postal_code"
                  ELSE IF date_of_birth # u.date_of_birth THEN "date_of_birth"
                  ELSE "sin_last_three" >>)

\* The reply of verify_security_questions (lines 150-158).
security_reply(u, postal_code, date_of_birth, sin_last_three) ==
    IF falsy(u.pin) THEN MsgPinFirst
    ELSE IF security_answers_match(u, postal_code, date_of_birth, sin_last_three)
    THEN MsgSecurityOk
    ELSE MsgSecurityFail

\* lines 147-158
verify_security_questions(s, postal_code, date_of_birth, sin_last_three) ==
    /\ pc[s] = Idle
    /\ in_call(s)
    /\ LET r == security_reply(user_data[s], postal_code, date_of_birth, sin_last_three) IN
       /\ last' = Call(s, "verify_security_questions",
                       <<postal_code, date_of_birth, sin_last_three>>, r, {})
       /\ verified' = [verified EXCEPT ![s] = @ \/ r = MsgSecurityOk]
    /\ UNCHANGED <<store, now, user_data, pc, transferred, stale>>


\* The result of one UPDATE by pin: the columns it changed, and the clock.
Written(pin, column) == IF RowsMatched(store, pin) THEN {column} ELSE {}
Tick(pin) == IF RowsMatched(store, pin) THEN now + 1 ELSE now

\* The guard of line 163, on the status the session loaded.
unlock_refused(u) == u.account_status # "locked"

\* lines 160-168
unlock_account(s, db_ok) ==
    /\ pc[s] = Idle
    /\ in_call(s)
    /\ IF unlock_refused(user_data[s]) THEN
          /\ last' = Call(s, "unlock_account", <<>>, MsgNotLocked, {})
          /\ UNCHANGED <<store, now, stale>>
       ELSE IF ~db_ok THEN
          /\ last' = Call(s, "unlock_account", <<>>, Raised("StoreError"), {})
          /\ UNCHANGED <<store, now, stale>>
       ELSE
          /\ now < MaxClock
          /\ store' = update_account_status(store, user_data[s].pin, "active", now + 1)
          /\ now' = Tick(user_data[s].pin)
          /\ stale' = MarkStale(s, user_data[s].pin)
          /\ last' = Call(s, "unlock_account", <<>>, MsgUnlocked,
                          Written(user_data[s].pin, "account_status"))
    /\ UNCHANGED <<user_data, pc, verified, transferred>>

\* The guard testing for None only, so that "" passes.
reset_refused_only_none(new_password) == new_password = None

\* The guard of line 173.
reset_refused(new_password) == falsy(new_password)

\* lines 170-176: up to the await of update_password.  A session that
\* loaded a locked account goes on to a second store call (line 178) and
\* is suspended there.
reset_password(s, new_password, db_ok) ==
    /\ pc[s] = Idle
    /\ in_call(s)
    /\ IF reset_refused(new_password) THEN
          /\ last' = Call(s, "reset_password", <<new_password>>, MsgNeedPassword, {})
          /\ UNCHANGED <<store, now, stale, pc>>
       ELSE IF ~db_ok THEN
          /\ last' = Call(s, "reset_password", <<new_password>>, Raised("StoreError"), {})
          /\ UNCHANGED <<store, now, stale, pc>>
       ELSE
          /\ now < MaxClock
          /\ store' = update_password(store, user_data[s].pin, new_password, now + 1)
          /\ now' = Tick(user_data[s].pin)
          /\ stale' = MarkStale(s, user_data[s].pin)
          /\ IF user_data[s].account_status = "locked"
             THEN /\ pc' = [pc EXCEPT ![s] = Suspended(new_password)]
                  /\ last' = Call(s, "reset_password", <<new_password>>, Awaiting,
                                  Written(user_data[s].pin, "password"))
             ELSE /\ pc' = pc
                  /\ last' = Call(s, "reset_password", <<new_password>>, MsgPasswordReset,
                                  Written(user_data[s].pin, "password"))
    /\ UNCHANGED <<user_data, verified, transferred>>

\* lines 177-180: the second store call of reset_password and its return.
reset_password_status(s, db_ok) ==
    /\ pc[s].at = "update_account_status"
    /\ in_call(s)
    /\ pc' = [pc EXCEPT ![s] = Idle]
    /\ IF ~db_ok THEN
          /\ last' = Call(s, "reset_password", <<pc[s].new_password>>,
                          Raised("StoreError"), {})
          /\ UNCHANGED <<store, now, stale>>
       ELSE
          /\ now < MaxClock
          /\ store' = update_account_status(store, user_data[s].pin, "active", now + 1)
          /\ now' = Tick(user_data[s].pin)
          /\ stale' = MarkStale(s, user_data[s].pin)
          /\ last' = Call(s, "reset_password", <<pc[s].new_password>>, MsgPasswordReset,
                          Written(user_data[s].pin, "account_status"))
    /\ UNCHANGED <<user_data, verified, transferred>>

\* The call disconnects while reset_password is suspended at line 178: the
\* task is cancelled at the await and the status is never written.
reset_password_cancelled(s) ==
    /\ pc[s].at = "update_account_status"
    /\ in_call(s)
    /\ pc' = [pc EXCEPT ![s] = Idle]
    /\ last' = Call(s, "reset_password", <<pc[s].new_password>>,
                    Raised("CancelledError"), {})
    /\ UNCHANGED <<store, now, user_data, verified, transferred, stale>>

\* The choice without the loop: always the first participant.
participant_identity_first_listed(participants) ==
    IF participants # <<>> THEN participants[1] ELSE NoneText

\* lines 198-209: the identity to transfer, NoneText when there is none.
participant_identity(participants) ==
    LET sip(i) == /\ participants[i] # <<>>
                  /\ \/ startswith(participants[i], <<"+">>)
                     \/ startswith(participants[i], <<"t","e","l",":">>)
    IN  IF \E i \in 1..Len(participants) : sip(i)
        THEN participants[CHOOSE i \in 1..Len(participants) :
                            sip(i) /\ \A j \in 1..(i - 1) : ~sip(j)]
        ELSE IF participants # <<>> THEN participants[1]
        ELSE NoneText

\* The transfer without its except clause: a backend error escapes.
transfer_outcome_without_except(human_agent_phone, has_room, participants, backend_ok) ==
    IF falsy(human_agent_phone) THEN MsgTransferUnable
    ELSE IF ~has_room THEN MsgTransferEscalate
    ELSE IF participant_identity(participants) \in {NoneText, <<>>} THEN MsgTransferEscalate
    ELSE IF backend_ok THEN MsgTransferring
    ELSE Raised("Exception")

\* What transfer_to_specialist returns (lines 185-232); no exception
\* leaves the try block.
transfer_outcome(human_agent_phone, has_room, participants, backend_ok) ==
    IF falsy(human_agent_phone) THEN MsgTransferUnable
    ELSE IF ~has_room THEN MsgTransferEscalate
    ELSE IF participant_identity(participants) \in {NoneText, <<>>} THEN MsgTransferEscalate
    ELSE IF backend_ok THEN MsgTransferring
    ELSE MsgTransferUnable

\* lines 214-225: the request sent to the telephony backend, if the tool
\* gets that far.
transfer_request(human_agent_phone, has_room, participants) ==
    IF \/ falsy(human_agent_phone) \/ ~has_room
       \/ participant_identity(participants) \in {NoneText, <<>>}
    THEN NoRequest
    ELSE <<participant_identity(participants)>>

\* lines 182-232
transfer_to_specialist(s, human_agent_phone, has_room, participants, backend_ok) ==
    /\ pc[s] = Idle
    /\ in_call(s)
    /\ LET r == transfer_outcome(human_agent_phone, has_room, participants, backend_ok) IN
       /\ last' = [Call(s, "transfer_to_specialist", <<>>, r, {}) EXCEPT
                      !.env = TransferEnv(human_agent_phone, has_room,
                                          participants, backend_ok),
                      !.request = transfer_request(human_agent_phone, has_room,
                                                   participants)]
       /\ transferred' = [transferred EXCEPT ![s] = @ \/ r = MsgTransferring]
    /\ UNCHANGED <<store, now, user_data, pc, verified, stale>>

\* `x or default` for a str field.
or_default(x, default) == IF falsy(x) THEN default ELSE x

\* The summary with the stored password among the lines.
call_summary_with_password(u) ==
    Reply("Call Summary: - User: {} - Issue: {} - Location: {} - Account Status: {} - Action Taken: {}",
          << or_default(u.name, "Unknown"),
             or_default(u.issue_type, "General Support"),
             IF u.location \in {NoneText, <<>>}
                THEN <<"N","o","t"," ","s","p","e","c","i","f","i","e","d">>
                ELSE u.location,
             or_default(u.account_status, "Unknown"),
             IF u.issue_type = "other" THEN "Transferred to specialist"
                                       ELSE "Issue resolved",
             u.password >>)

\* The text of lines 237-245.
call_summary(u) ==
    Reply("Call Summary: - User: {} - Issue: {} - Location: {} - Account Status: {} - Action Taken: {}",
          << or_default(u.name, "Unknown"),
             or_default(u.issue_type, "General Support"),
             IF u.location \in {NoneText, <<>>}
                THEN <<"N","o","t"," ","s","p","e","c","i","f","i","e","d">>
                ELSE u.location,
             or_default(u.account_status, "Unknown"),
             IF u.issue_type = "other" THEN "Transferred to specialist"
                                       ELSE "Issue resolved" >>)

\* lines 234-245
get_call_summary(s) ==
    /\ pc[s] = Idle
    /\ in_call(s)
    /\ last' = Call(s, "get_call_summary", <<>>, call_summary(user_data[s]), {})
    /\ UNCHANGED <<store, now, user_data, pc, verified, transferred, stale>>

(***************************************************************************)
(* The worker's entrypoint (lines 247-264), run once for each call.        *)
(***************************************************************************)

\* What the entrypoint has done when the session is started.
Started == [kind |-> "started", text |-> None, args |-> <<>>]

\* One ITSupportData object serving every call of the worker.
new_session_data_shared(ud, s) == [o \in DOMAIN ud |-> ITSupportData]

\* ITSupportData(ctx=ctx) of line 259: the data of the new call.
new_session_data(ud, s) == [ud EXCEPT ![s] = ITSupportData]

\* lines 247-250 up to the await of create_pool; with a pool in place the
\* entrypoint goes on to start the session (lines 252-264).
entrypoint(s) ==
    /\ ep[s] = "new"
    /\ IF pool = NoPool
       THEN /\ ep' = [ep EXCEPT ![s] = "create_pool"]
            /\ last' = Call(s, "entrypoint", <<>>, Awaiting, {})
            /\ UNCHANGED user_data
       ELSE /\ ep' = [ep EXCEPT ![s] = "running"]
            /\ user_data' = new_session_data(user_data, s)
            /\ last' = Call(s, "entrypoint", <<>>, Started, {})
    /\ UNCHANGED <<store, now, pc, verified, transferred, stale,
                   confirm_delete, pool, created>>

\* line 250, when create_pool returns: the global is assigned, and the
\* session is started (lines 252-264).  If the store cannot be reached
\* create_pool raises and the call's job ends.
entrypoint_pool_created(s, db_ok) ==
    /\ ep[s] = "create_pool"
    /\ IF db_ok
       THEN /\ created' = created + 1
            /\ pool' = created + 1
            /\ ep' = [ep EXCEPT ![s] = "running"]
            /\ user_data' = new_session_data(user_data, s)
            /\ last' = Call(s, "entrypoint", <<>>, Started, {})
       ELSE /\ ep' = [ep EXCEPT ![s] = "failed"]
            /\ last' = Call(s, "entrypoint", <<>>, Raised("StoreError"), {})
            /\ UNCHANGED <<created, pool, user_data>>
    /\ UNCHANGED <<store, now, pc, verified, transferred, stale, confirm_delete>>

(***************************************************************************)
(* The dashboard (src/frontend.py)                                         *)
(***************************************************************************)
\* update_record(pin, 'account_status', value), lines 75-96; the table's
\* trigger refreshes updated_at.
update_record_status(pin, value) ==
    /\ RowsMatched(store, pin)
    /\ now < MaxClock
    /\ store' = update_account_status(store, pin, value, now + 1)
    /\ now' = now + 1
    /\ stale' = MarkStale("dashboard", pin)
    /\ last' = Call("dashboard", "update_record", <<pin, value>>, Reply("True", <<>>),
                    {"account_status"})
    /\ UNCHANGED <<user_data, pc, verified, transferred>>
    /\ UNCHANGED <<confirm_delete, pool, created, ep>>

\* delete_record(pin), lines 98-111.
delete_record(pin) ==
    /\ RowsMatched(store, pin)
    /\ store' = SelectSeq(store, LAMBDA row : row.pin # pin)
    /\ stale' = MarkStale("dashboard", pin)
    /\ last' = Call("dashboard", "delete_record", <<pin>>, Reply("True", <<>>), {"row"})
    /\ UNCHANGED <<now, user_data, pc, verified, transferred>>
    /\ UNCHANGED <<pool, created, ep>>

(***************************************************************************)
(* Specifications                                                          *)
(***************************************************************************)
Tool(s) ==
    \/ \E pin \in PinInputs, db_ok \in BOOLEAN : verify_pin_and_get_details(s, pin, db_ok)
    \/ \E location \in LocationInputs : set_location(s, location)
    \/ \E issue \in IssueInputs : set_issue_type(s, issue)
    \/ \E p \in PostalInputs, d \in DobInputs, x \in SinInputs :
          verify_security_questions(s, p, d, x)
    \/ \E db_ok \in BOOLEAN : unlock_account(s, db_ok)
    \/ \E pw \in PasswordInputs, db_ok \in BOOLEAN : reset_password(s, pw, db_ok)
    \/ \E db_ok \in BOOLEAN : reset_password_status(s, db_ok)
    \/ reset_password_cancelled(s)
    \/ \E e \in TransferScenarios :
          transfer_to_specialist(s, e.phone, e.has_room, e.participants, e.backend_ok)
    \/ get_call_summary(s)

\* hashlib.sha256(password.encode()).hexdigest(), lines 113-115, on the
\* passwords of PasswordInputs.
hash_password(password) ==
    CASE password = "hunter2" ->
            "f52fbd32b2b3b86ff88ef6c490628285f482af15ddcb29541f94bcf526a3f6c7"
      [] password = "" ->
            "e3b0c44298fc1c149afbf4c8996fb92427ae41e4649b934ca495991b7852b855"

\* What the dashboard shows the operator.
MsgDeleteConfirm == Reply("Click delete again to confirm", <<>>)
MsgDeleted == Reply("Record deleted successfully!", <<>>)
MsgDeleteFailed == Reply("Database connection failed: {e}", <<>>)
MsgAddRequired == Reply("PIN, Name and Phone Number are required fields!", <<>>)
MsgAddSin == Reply("SIN last three digits must be exactly 3 characters!", <<>>)
MsgAdded == Reply("Record added successfully!", <<>>)
MsgPasswordUpdated == Reply("Password updated successfully!", <<>>)
MsgEnterPassword == Reply("Please enter a new password", <<>>)

\* The options of the two selectboxes: the PINs of the table's rows.
pins_listed == {store[i].pin : i \in DOMAIN store}

\* The Delete button, lines 180-189.  After a successful delete_record,
\* st.rerun() stops the script, so line 186 is not reached; it is reached
\* when delete_record gives a falsy result (no connection).
click_delete(record_to_delete, conn_ok) ==
    /\ record_to_delete \in pins_listed
    /\ IF confirm_delete
       THEN IF conn_ok
            THEN /\ store' = SelectSeq(store, LAMBDA row : row.pin # record_to_delete)
                 /\ stale' = MarkStale("dashboard", record_to_delete)
                 /\ last' = Call("dashboard", "click_delete", <<record_to_delete>>,
                                 MsgDeleted, {"row"})
                 /\ UNCHANGED confirm_delete
            ELSE /\ confirm_delete' = FALSE
                 /\ last' = Call("dashboard", "click_delete", <<record_to_delete>>,
                                 MsgDeleteFailed, {})
                 /\ UNCHANGED <<store, stale>>
       ELSE /\ confirm_delete' = TRUE
            /\ last' = Call("dashboard", "click_delete", <<record_to_delete>>,
                            MsgDeleteConfirm, {})
            /\ UNCHANGED <<store, stale>>
    /\ UNCHANGED <<now, user_data, pc, verified, transferred, pool, created, ep>>

\* The row of the Add New Record form, lines 232-247, with the fields the
\* model does not vary filled in.
form_row(pin, account_status, password, sin_last_three) ==
    [pin |-> pin, name |-> "Jane Roe", phone_number |-> "+1-555-0199",
     account_status |-> account_status,
     password |-> IF password # "" THEN hash_password(password) ELSE None,
     postal_code |-> "54321", date_of_birth |-> "02/02/1992",
     sin_last_three |-> sin_last_three, updated_at |-> now]

\* The Add Record button, lines 223-254, and insert_data, lines 52-73.
add_record(pin, account_status, password, sin_last_three) ==
    /\ Len(store) < MaxRows
    /\ IF pin = ""
       THEN /\ last' = Call("dashboard", "add_record", <<pin, password>>,
                            MsgAddRequired, {})
            /\ UNCHANGED store
       ELSE IF sin_last_three # "" /\ Len(sin_last_three) # 3
       THEN /\ last' = Call("dashboard", "add_record", <<pin, password>>,
                            MsgAddSin, {})
            /\ UNCHANGED store
       ELSE /\ store' = Append(store, form_row(pin, account_status, password,
                                               sin_last_three))
            /\ last' = Call("dashboard", "add_record", <<pin, password>>,
                            MsgAdded, {"row"})
    /\ UNCHANGED <<now, user_data, pc, verified, transferred, stale,
                   confirm_delete, pool, created, ep>>

\* The Reset Password button, lines 304-315, and update_record, lines
\* 75-96, on the password column.
password_reset(record_to_update, new_password) ==
    /\ record_to_update \in pins_listed
    /\ IF new_password # ""
       THEN /\ now < MaxClock
            /\ store' = update_password(store, record_to_update,
                                        hash_password(new_password), now + 1)
            /\ now' = now + 1
            /\ stale' = MarkStale("dashboard", record_to_update)
            /\ last' = Call("dashboard", "password_reset",
                            <<record_to_update, new_password>>,
                            MsgPasswordUpdated, {"password"})
       ELSE /\ last' = Call("dashboard", "password_reset",
                            <<record_to_update, new_password>>,
                            MsgEnterPassword, {})
            /\ UNCHANGED <<store, now, stale>>
    /\ UNCHANGED <<user_data, pc, verified, transferred,
                   confirm_delete, pool, created, ep>>

\* A deletion the operator has confirmed, the widget state of the
\* operator's browser session left aside.
confirmed_delete(pin) == delete_record(pin) /\ UNCHANGED confirm_delete

Dashboard ==
    \/ \E value \in AccountStatuses : update_record_status("1234", value)
    \/ confirmed_delete("1234")

\* One call, every tool, and the dashboard.
Next ==
    \/ Tool("call1")
    \/ Dashboard

Spec == Init /\ [][Next]_vars

\* One call with every tool and nobody else at the store.
NextCall == Tool("call1")

SpecCall == Init /\ [][NextCall]_vars

\* The dialogue up to the escalation: the tools that write nothing to the
\* store, with every environment of a transfer.
DialogueTool(s) ==
    \/ \E pin \in PinInputs, db_ok \in BOOLEAN : verify_pin_and_get_details(s, pin, db_ok)
    \/ \E location \in LocationInputs : set_location(s, location)
    \/ \E issue \in IssueInputs : set_issue_type(s, issue)
    \/ \E e \in TransferInputs :
          transfer_to_specialist(s, e.phone, e.has_room, e.participants, e.backend_ok)
    \/ get_call_summary(s)

NextDialogue == DialogueTool("call1")

SpecDialogue == Init /\ [][NextDialogue]_vars

\* The tools that read or write the store.
StoreTool(s) ==
    \/ \E pin \in PinInputs, db_ok \in BOOLEAN : verify_pin_and_get_details(s, pin, db_ok)
    \/ \E db_ok \in BOOLEAN : unlock_account(s, db_ok)
    \/ \E pw \in PasswordInputs, db_ok \in BOOLEAN : reset_password(s, pw, db_ok)
    \/ \E db_ok \in BOOLEAN : reset_password_status(s, db_ok)
    \/ reset_password_cancelled(s)

\* Concurrent calls on the one store, interleaved at their awaits.
NextConc == \E s \in Sessions : StoreTool(s)

SpecConc == Init /\ [][NextConc]_vars

\* What the operator may enter in the Add New Record form.
FormPinInputs == PinInputs \cup {""}
FormStatusInputs == {"active", "locked"}
FormSinInputs == {"321", "12"}

\* The operator at the dashboard, alone at the store.
NextDashboard ==
    \/ \E pin \in PinInputs, conn_ok \in BOOLEAN : click_delete(pin, conn_ok)
    \/ \E pin \in FormPinInputs, status \in FormStatusInputs,
          pw \in PasswordInputs, sin \in FormSinInputs :
          add_record(pin, status, pw, sin)
    \/ \E pin \in PinInputs, pw \in PasswordInputs : password_reset(pin, pw)
    \/ \E pin \in PinInputs, value \in AccountStatuses :
          update_record_status(pin, value)

SpecDashboard == Init /\ [][NextDashboard]_vars

\* The worker before any call: no pool, no entrypoint run yet.
InitStart ==
    /\ \E status \in AccountStatuses : store = <<SampleRow(status)>>
    /\ now = 0
    /\ user_data = [s \in Sessions |-> ITSupportData]
    /\ pc = [s \in Sessions |-> Idle]
    /\ last = NoCall
    /\ verified = [s \in Sessions |-> FALSE]
    /\ transferred = [s \in Sessions |-> FALSE]
    /\ stale = [s \in Sessions |-> FALSE]
    /\ confirm_delete = FALSE
    /\ pool = NoPool
    /\ created = 0
    /\ ep = [s \in Sessions |-> "new"]

\* Calls arriving at one worker: their entrypoints and their store tools,
\* interleaved at the awaits.
NextStart ==
    \E s \in Sessions :
        \/ entrypoint(s)
        \/ \E db_ok \in BOOLEAN : entrypoint_pool_created(s, db_ok)
        \/ StoreTool(s)

SpecStart == InitStart /\ [][NextStart]_vars

(***************************************************************************)
(* Properties                                                              *)
(***************************************************************************)
\* The row the store holds for the account session s loaded: <<row>> or <<>>.
StoredRow(s) == verify_user_pin(store, user_data[s].pin)

StoredStatusIs(s, status) ==
    StoredRow(s) # <<>> /\ StoredRow(s)[1].account_status = status

MutatingTools == {"unlock_account", "reset_password"}

\* C1: neither unlock_account nor reset_password writes to the store in a
\* session in which verify_security_questions has not succeeded before.
C1_WritesOnlyAfterSecurityCheck ==
    (last.op \in MutatingTools /\ last.wrote # {}) => verified[last.sess]

\* C2: unlock_account changes the store iff the stored status is 'locked'
\* immediately before the call; then the stored status is 'active'
\* afterwards; with any other stored status it reports not-locked and writes
\* nothing.  (Calls on which the store itself fails are left aside.)
C2_UnlockIffStoredLocked ==
    [][(last'.op = "unlock_account" /\ last'.result.kind = "return") =>
          LET s == last'.sess IN
          /\ (store' # store) <=> StoredStatusIs(s, "locked")
          /\ StoredStatusIs(s, "locked") =>
                verify_user_pin(store', user_data[s].pin)[1].account_status = "active"
          /\ ~StoredStatusIs(s, "locked") =>
                (last'.result = MsgNotLocked /\ store' = store)]_vars

\* C3: an unlock_account call that directly follows a successful
\* unlock_account of the same session reports not-locked, writes nothing and
\* leaves the account as the first call left it.
C3_SecondUnlockRefused ==
    [][(/\ last.op = "unlock_account" /\ last.result = MsgUnlocked
        /\ last'.op = "unlock_account" /\ last'.sess = last.sess
        /\ last'.result.kind = "return"
        /\ vars' # vars) =>
          (last'.result = MsgNotLocked /\ last'.wrote = {} /\ store' = store)]_vars

\* C4: with an account loaded, verify_security_questions reports success
\* iff each of the three answers equals the value the session loaded for
\* the account, reports the one failure reply otherwise, and changes neither
\* the session's data nor the store.
C4_SecurityCheckExact ==
    [][last'.op = "verify_security_questions" =>
          LET u == user_data[last'.sess]
              a == last'.args
          IN  /\ user_data' = user_data /\ store' = store /\ now' = now /\ pc' = pc
              /\ ~falsy(u.pin) =>
                    /\ last'.result \in {MsgSecurityOk, MsgSecurityFail}
                    /\ last'.result = MsgSecurityOk <=>
                          (/\ a[1] = u.postal_code
                           /\ a[2] = u.date_of_birth
                           /\ a[3] = u.sin_last_three)]_vars

\* A check that fails on the SIN digits alone, the other two answers right.
C4_Witness ==
    /\ last.op = "verify_security_questions"
    /\ last.result = MsgSecurityFail
    /\ last.args[1] = user_data[last.sess].postal_code
    /\ last.args[2] = user_data[last.sess].date_of_birth
    /\ last.args[3] # user_data[last.sess].sin_last_three
    /\ StoredStatusIs(last.sess, "locked")

\* C5: a session whose loaded row has since been written by another session
\* writes a status only on the strength of the status the store holds at
\* that moment, not of the status it read before.
C5_WritesOnCurrentStatus ==
    [][(/\ last'.op \in MutatingTools
        /\ "account_status" \in last'.wrote
        /\ stale[last'.sess]) =>
          StoredStatusIs(last'.sess, user_data[last'.sess].account_status)]_vars

\* C6: whenever no tool is in flight, no row holds a password written by
\* reset_password while its status is still 'locked': the two writes of a
\* reset of a locked account happen both or not at all.
C6_ResetAtomic ==
    (\A s \in Sessions : pc[s] = Idle) =>
        \A i \in 1..Len(store) :
            store[i].password \in (PasswordInputs \ {""}) =>
                store[i].account_status # "locked"

\* C7: reset_password with an empty new password returns the prompt for a
\* password, writes neither password nor status, and leaves the session as
\* it was.
C7_EmptyPasswordRejected ==
    [][(last'.op = "reset_password" /\ last'.args = <<"">>) =>
          /\ last'.result = MsgNeedPassword
          /\ last'.wrote = {}
          /\ UNCHANGED <<store, now, user_data, pc, verified, transferred, stale>>]_vars

\* An empty password refused in a session that loaded a locked account.
C7_Witness ==
    /\ last.op = "reset_password"
    /\ last.args = <<"">>
    /\ last.result = MsgNeedPassword
    /\ user_data[last.sess].account_status = "locked"
    /\ StoredStatusIs(last.sess, "locked")

\* C8: once a transfer has been performed in a session, no unlock_account or
\* reset_password call of that session writes to the store.
C8_NoWriteAfterTransfer ==
    (last.op \in MutatingTools /\ last.wrote # {}) => ~transferred[last.sess]

ExtensionReplies == {MsgTransferUnable, MsgTransferEscalate}

\* No participant can be identified: there is none, or none has a SIP
\* identity and the first one's identity is empty.
NoParticipant(participants) ==
    \/ participants = <<>>
    \/ /\ \A i \in 1..Len(participants) :
             \/ participants[i] = <<>>
             \/ /\ ~startswith(participants[i], <<"+">>)
                /\ ~startswith(participants[i], <<"t","e","l",":">>)
       /\ participants[1] = <<>>

\* C10: transfer_to_specialist never raises; with no destination number, no
\* room, no identifiable participant or a backend error it returns a reply
\* naming the callback extension, and otherwise the transfer reply; whatever
\* the outcome, the session's data and the store are unchanged.
C10_TransferBestEffort ==
    [][last'.op = "transfer_to_specialist" =>
          LET e == last'.env
              r == last'.result
              failed == \/ falsy(e.phone) \/ ~e.has_room
                        \/ NoParticipant(e.participants) \/ ~e.backend_ok
          IN  /\ r.kind = "return"
              /\ failed => r \in ExtensionReplies
              /\ ~failed => r = MsgTransferring
              /\ UNCHANGED <<store, now, user_data, pc, verified, stale>>]_vars

\* A transfer that the backend refuses, in a session with an account loaded
\* and an issue recorded.
C10_Witness ==
    /\ last.op = "transfer_to_specialist"
    /\ last.result = MsgTransferUnable
    /\ ~falsy(last.env.phone) /\ ~last.env.backend_ok
    /\ user_data[last.sess].pin = "1234"
    /\ user_data[last.sess].issue_type = "other"
    /\ StoredRow(last.sess) # <<>>

(***************************************************************************)
(* The issue types the store and the dashboard accept.                     *)
(***************************************************************************)

\* frontend.py line 19 and the CHECK constraint of temp.py line 25
VALID_ISSUE_TYPES == {"account_locked", "password_reset", "others"}

\* C11: the issue type a session has recorded is unset or one of the three
\* values the store's CHECK constraint and the dashboard accept.
C11_IssueTypeInSchemaSet ==
    \A s \in Sessions : user_data[s].issue_type \in {None} \cup VALID_ISSUE_TYPES

\* C12 as stated: once a session has recorded a location, or an issue type,
\* no later step changes or clears it.
C12_SetAtMostOnce ==
    [][\A s \in Sessions :
          /\ user_data[s].location # NoneText =>
                user_data'[s].location = user_data[s].location
          /\ user_data[s].issue_type # None =>
                user_data'[s].issue_type = user_data[s].issue_type]_vars

\* C12: a session's location changes only in a set_location call of that
\* session that accepts its input, and then to the value that call records;
\* its issue type changes only in a set_issue_type call of that session, and
\* then to the category of that call's text.  No other tool changes either
\* one, and neither is ever cleared once recorded.
C12_ChangedOnlyByItsSetter ==
    [][\A s \in Sessions :
          /\ user_data'[s].location # user_data[s].location =>
                /\ last'.op = "set_location" /\ last'.sess = s
                /\ last'.result = MsgLocationSet
                /\ user_data'[s].location = location_recorded(last'.text)
          /\ user_data'[s].issue_type # user_data[s].issue_type =>
                /\ last'.op = "set_issue_type" /\ last'.sess = s
                /\ user_data'[s].issue_type = issue_category(last'.text)
          /\ user_data[s].location # NoneText => user_data'[s].location # NoneText
          /\ user_data[s].issue_type # None => user_data'[s].issue_type # None]_vars

\* An account is loaded in a session that had already recorded a location
\* and an issue type, and both are still there.
C12_Witness ==
    /\ last.op = "verify_pin_and_get_details"
    /\ last.result.kind = "return" /\ last.result # MsgPinNotFound
    /\ user_data[last.sess].location = <<"o","f","f","i","c","e">>
    /\ user_data[last.sess].issue_type = "password_reset"

(***************************************************************************)
(* What a caller hears, as a function of an account's public part.         *)
(***************************************************************************)

\* Values for the four protected columns of another account that is
\* otherwise the same: password, postal code, date of birth, SIN digits.
TwinSecrets ==
    { [password |-> None, postal_code |-> None,
       date_of_birth |-> None, sin_last_three |-> None],
      [password |-> "hunter2", postal_code |-> "54321",
       date_of_birth |-> "02/02/1992", sin_last_three |-> "321"] }

\* The record r (a stored row or a session's data) of the twin account.
twin(r, t) ==
    [r EXCEPT !.password = t.password,
              !.postal_code = t.postal_code,
              !.date_of_birth = t.date_of_birth,
              !.sin_last_three = t.sin_last_three]

twin_table(tbl, t) == [i \in DOMAIN tbl |-> twin(tbl[i], t)]

\* The text each tool returns for the call c, computed from the session
\* data u and the table tbl it is given.
tool_reply(c, u, tbl) ==
    CASE c.op = "verify_pin_and_get_details" ->
            LET found == verify_user_pin(tbl, c.args[1]) IN
            IF found = <<>> THEN MsgPinNotFound
            ELSE MsgPinFound(found[1].name, found[1].phone_number)
      [] c.op = "set_location" ->
            IF location_accepted(c.text) THEN MsgLocationSet ELSE MsgLocationRetry
      [] c.op = "set_issue_type" ->
            issue_reply(issue_category(c.text), u.account_status)
      [] c.op = "unlock_account" ->
            IF unlock_refused(u) THEN MsgNotLocked ELSE MsgUnlocked
      [] c.op = "reset_password" ->
            IF reset_refused(c.args[1]) THEN MsgNeedPassword ELSE MsgPasswordReset
      [] c.op = "transfer_to_specialist" ->
            transfer_outcome(c.env.phone, c.env.has_room, c.env.participants,
                             c.env.backend_ok)
      [] c.op = "get_call_summary" -> call_summary(u)

\* C13: whatever text an agent tool other than verify_security_questions
\* returns, it is the text the same call returns when the account's
\* password, postal code, date of birth and SIN digits are replaced by other
\* values, in the store and in the session; the session's and the store's
\* other fields after the call are the same for both accounts too, and the
\* replies of verify_security_questions carry no field of the account.
C13_RepliesIgnoreSecrets ==
    [][(last'.sess \in Sessions /\ last'.result.kind = "return") =>
          LET s == last'.sess IN
          \A t \in TwinSecrets :
             /\ last'.op # "verify_security_questions" =>
                   last'.result = tool_reply(last', twin(user_data[s], t),
                                             twin_table(store, t))
             /\ last'.op = "verify_security_questions" => last'.result.args = <<>>
             /\ twin(user_data'[s], t) =
                   IF last'.op = "verify_pin_and_get_details"
                      /\ last'.result # MsgPinNotFound
                   THEN load_account(twin(user_data[s], t), last'.args[1],
                                     verify_user_pin(twin_table(store, t),
                                                     last'.args[1])[1])
                   ELSE IF last'.op = "set_location" THEN
                        [twin(user_data[s], t) EXCEPT
                            !.location = user_data'[s].location]
                   ELSE IF last'.op = "set_issue_type" THEN
                        [twin(user_data[s], t) EXCEPT
                            !.issue_type = user_data'[s].issue_type]
                   ELSE twin(user_data[s], t)
             /\ last'.op # "reset_password" =>
                   twin_table(store', t) =
                      IF last'.op = "unlock_account" /\ last'.result = MsgUnlocked
                      THEN update_account_status(twin_table(store, t),
                                                 twin(user_data[s], t).pin,
                                                 "active", now + 1)
                      ELSE twin_table(store, t)]_vars

\* The summary of a call that has an account, with its password and its
\* answers, loaded and a location and an issue type recorded.
C13_Witness ==
    /\ last.op = "get_call_summary"
    /\ last.result = call_summary(user_data[last.sess])
    /\ ~falsy(user_data[last.sess].password)
    /\ ~falsy(user_data[last.sess].sin_last_three)
    /\ user_data[last.sess].location = <<"h","o","m","e">>
    /\ user_data[last.sess].issue_type = "account_locked"

\* The answer triples a caller may give.
AnswerInputs == PostalInputs \X DobInputs \X SinInputs

\* The three values the session loaded for the account.
loaded_answers(u) == <<u.postal_code, u.date_of_birth, u.sin_last_three>>

\* C14: when verify_security_questions is called on a loaded account with a
\* triple of answers that is not the account's, the result is the result of
\* every other triple that is not the account's, whichever answers are wrong
\* and however many, and it names no field.
C14_FailureReplyUniform ==
    LET u == user_data[last.sess] IN
    (/\ last.op = "verify_security_questions"
     /\ ~falsy(u.pin)
     /\ last.args # loaded_answers(u)) =>
        /\ last.result.args = <<>>
        /\ \A b \in AnswerInputs :
              b # loaded_answers(u) =>
                 security_reply(u, b[1], b[2], b[3]) = last.result

\* A check that fails on the postal code and the date of birth together,
\* the SIN digits right.
C14_Witness ==
    /\ last.op = "verify_security_questions"
    /\ last.result.kind = "return"
    /\ ~falsy(user_data[last.sess].pin)
    /\ last.args[1] # user_data[last.sess].postal_code
    /\ last.args[2] # user_data[last.sess].date_of_birth
    /\ last.args[3] = user_data[last.sess].sin_last_three

\* C15: a verify_pin_and_get_details call that the store answers, with a PIN
\* that no row has, returns the retry prompt and leaves every field of every
\* session as it was; with a PIN that a row has, it sets the session's pin to
\* the PIN given and its name, phone number, status, password and three
\* security answers to those of the one row the lookup returns, and leaves
\* the rest of the session alone.
C15_PinLookupLoadsOneRow ==
    [][(last'.op = "verify_pin_and_get_details" /\ last'.result.kind = "return") =>
          LET s == last'.sess
              pin == last'.args[1]
              rows == {i \in DOMAIN store : store[i].pin = pin}
          IN  /\ store' = store
              /\ IF rows = {}
                 THEN last'.result = MsgPinNotFound /\ user_data' = user_data
                 ELSE \E i \in rows :
                        /\ \A j \in rows : i <= j
                        /\ last'.result = MsgPinFound(store[i].name, store[i].phone_number)
                        /\ user_data'[s].pin = pin
                        /\ user_data'[s].name = store[i].name
                        /\ user_data'[s].phone_number = store[i].phone_number
                        /\ user_data'[s].account_status = store[i].account_status
                        /\ user_data'[s].password = store[i].password
                        /\ user_data'[s].postal_code = store[i].postal_code
                        /\ user_data'[s].date_of_birth = store[i].date_of_birth
                        /\ user_data'[s].sin_last_three = store[i].sin_last_three
                        /\ user_data'[s].location = user_data[s].location
                        /\ user_data'[s].issue_type = user_data[s].issue_type
                        /\ \A o \in Sessions \ {s} : user_data'[o] = user_data[o]]_vars

\* The sample account has just been found and loaded, answers included.
C15_Witness ==
    /\ last.op = "verify_pin_and_get_details"
    /\ last.result = MsgPinFound("John Doe", "+1-555-0123")
    /\ user_data[last.sess].pin = "1234"
    /\ user_data[last.sess].sin_last_three = "123"
    /\ user_data[last.sess].password = "hashed_password_here"

\* The session s has been through the happy path on the sample account: the
\* account was loaded as locked, the location is the office, the issue is a
\* locked account, the security answers were accepted, and the call just
\* made is an unlock_account that reported success.
happy_path_done(s) ==
    /\ user_data[s].pin = "1234"
    /\ user_data[s].name = "John Doe"
    /\ user_data[s].account_status = "locked"
    /\ loaded_answers(user_data[s]) = <<"12345", "01/01/1990", "123">>
    /\ user_data[s].location = <<"o","f","f","i","c","e">>
    /\ user_data[s].issue_type = "account_locked"
    /\ verified[s]
    /\ last.sess = s /\ last.op = "unlock_account" /\ last.result = MsgUnlocked

\* C16: in a call that nothing else interferes with, when the happy path
\* (PIN lookup of the locked sample account, location office, issue
\* account_locked, matching security answers, unlock) has just ended with
\* the unlock reporting success, the account's stored status is 'active'.
C16_HappyPathEndsActive ==
    \A s \in Sessions :
       happy_path_done(s) => /\ StoredStatusIs(s, "active")
                             /\ last.wrote = {"account_status"}

\* The end of the happy path: the unlock has written the sample account's
\* row, which is now active and otherwise as the sample data has it.
C16_Witness ==
    /\ happy_path_done("call1")
    /\ Len(store) = 1
    /\ store[1] = [SampleRow("active") EXCEPT !.updated_at = 1]

locked_issue_on_unlocked_account(s) ==
    /\ ~falsy(user_data[s].pin)
    /\ user_data[s].account_status # "locked"
    /\ user_data[s].issue_type = "account_locked"

\* C18: classifying the issue as account_locked on a loaded account whose
\* status is not 'locked' returns the informational reply, which asks for no
\* security check; and while a session is in that situation no tool call of
\* it changes the stored status or the stored password of its account.
C18_NoWriteOnUnlockedAccount ==
    [][\A s \in Sessions :
          /\ (/\ last'.sess = s /\ last'.op = "set_issue_type"
              /\ locked_issue_on_unlocked_account(s)') =>
                last'.result = MsgIssueNotLocked
          /\ (locked_issue_on_unlocked_account(s) /\ last'.sess = s) =>
                \A i \in DOMAIN store :
                   store[i].pin = user_data[s].pin =>
                      /\ i \in DOMAIN store'
                      /\ store'[i].account_status = store[i].account_status
                      /\ store'[i].password = store[i].password]_vars

\* The two locations of line 124.
LocationWords == { <<"h","o","m","e">>, <<"o","f","f","i","c","e">> }

\* The text t is the lower-case word w up to the case of its letters.
same_ignoring_case(t, w) ==
    /\ Len(t) = Len(w)
    /\ \A i \in 1..Len(w) :
          \E k \in 1..26 : /\ LowerCase[k] = w[i]
                           /\ t[i] \in {LowerCase[k], UpperCase[k]}

\* C19: a set_location call whose text is 'home' or 'office' up to the case
\* of its letters records that word in lower case as the session's location,
\* changes nothing else and confirms; a call with any other text returns the
\* re-prompt and leaves the session as it was.
C19_LocationAcceptedIffHomeOrOffice ==
    [][last'.op = "set_location" =>
          LET s == last'.sess
              t == last'.text
          IN  /\ UNCHANGED <<store, now, pc, verified, transferred>>
              /\ IF \E w \in LocationWords : same_ignoring_case(t, w)
                 THEN /\ last'.result = MsgLocationSet
                      /\ \E w \in LocationWords :
                            /\ same_ignoring_case(t, w)
                            /\ user_data' = [user_data EXCEPT ![s].location = w]
                 ELSE /\ last'.result = MsgLocationRetry
                      /\ user_data' = user_data]_vars

\* The caller said "Office" and the session holds "office".
C19_Witness ==
    /\ last.op = "set_location"
    /\ last.text = <<"O","f","f","i","c","e">>
    /\ last.result = MsgLocationSet
    /\ user_data[last.sess].location = <<"o","f","f","i","c","e">>

\* C20: a set_issue_type call records exactly one category for its text,
\* read without regard to case: account_locked if it contains 'lock', else
\* password_reset if it contains 'password' or 'reset', else others.  For
\* account_locked on a locked account and for password_reset the reply asks
\* for the security verification (for account_locked on an account that is
\* not locked it is the informational reply); for others it announces the
\* escalation.
C20_IssueClassification ==
    [][last'.op = "set_issue_type" =>
          LET s == last'.sess
              low == lower(last'.text)
              category ==
                 IF contains(<<"l","o","c","k">>, low) THEN "account_locked"
                 ELSE IF contains(<<"p","a","s","s","w","o","r","d">>, low)
                         \/ contains(<<"r","e","s","e","t">>, low)
                      THEN "password_reset"
                 ELSE "others"
          IN  /\ user_data' = [user_data EXCEPT ![s].issue_type = category]
              /\ category = "account_locked" =>
                    last'.result = IF user_data[s].account_status = "locked"
                                   THEN MsgIssueLocked ELSE MsgIssueNotLocked
              /\ category = "password_reset" => last'.result = MsgIssuePassword
              /\ category = "others" => last'.result = MsgIssueOther]_vars

\* C21: at most one row of the account table has any given pin.
C21_PinIsUnique ==
    \A i, j \in DOMAIN store : store[i].pin = store[j].pin => i = j

\* The tools that call the store.
StoreCallingTools ==
    {"verify_pin_and_get_details", "unlock_account", "reset_password"}

\* C22: no call of a tool that uses the store ends with the store's error
\* raised out of the tool: a store failure is answered with a returned
\* message.
C22_StoreFailureIsAnswered ==
    (last.sess \in Sessions /\ last.op \in StoreCallingTools) =>
        last.result # Raised("StoreError")

\* C23: the entrypoint gives a call session data with no account, no
\* location and no issue type; a step of one call (a tool call, whether it
\* returns or raises, or its entrypoint) leaves the session data and the
\* suspended tool of every other call as they were; and what a store tool
\* returns is what the call's own session data, the store and the tool's
\* arguments give.
C23_SessionsIsolated ==
    [][\A s \in Sessions :
          /\ (ep[s] # "running" /\ ep'[s] = "running") =>
                /\ user_data'[s] = ITSupportData
                /\ falsy(user_data'[s].pin)
                /\ user_data'[s].location = NoneText
                /\ user_data'[s].issue_type = None
          /\ last'.sess = s =>
                \A o \in Sessions \ {s} :
                   /\ user_data'[o] = user_data[o]
                   /\ pc'[o] = pc[o]
                   /\ ep'[o] = ep[o]
          /\ (last'.sess = s /\ last'.result.kind = "return") =>
                last'.result = tool_reply(last', user_data[s], store)]_vars

\* A tool call of one call has just failed on the store while the other
\* call holds the account it loaded.
C23_Witness ==
    /\ last.sess = "call1" /\ last.op = "unlock_account"
    /\ last.result = Raised("StoreError")
    /\ user_data["call1"].pin = "1234"
    /\ user_data["call2"].pin = "1234"
    /\ user_data["call2"].account_status = "locked"
    /\ created = 1

\* C24: a row leaves the table only in a Delete click that directly follows
\* a first Delete click on the same record, the one that asked for the
\* confirmation; any other Delete click deletes nothing.
C24_DeleteNeedsConfirmingClick ==
    [][Len(store') < Len(store) =>
          /\ last'.op = "click_delete"
          /\ last.op = "click_delete"
          /\ last.result = MsgDeleteConfirm
          /\ last.args = last'.args]_vars

\* The operations that write a password, and the password entered in the
\* call c of one of them.
PasswordWriters == {"add_record", "password_reset", "reset_password"}

entered_password(c) == IF c.op = "reset_password" THEN c.args[1] ELSE c.args[2]

\* C25: whenever the dashboard's add-record, the dashboard's password reset
\* or the agent's reset_password writes a password to the table, the value
\* written is hash_password of the password entered, not the entered text
\* (an add-record with no password entered stores no password).
C25_StoredPasswordIsHash ==
    [][last'.op \in PasswordWriters =>
          \A i \in DOMAIN store' :
             (i \notin DOMAIN store \/ store'[i].password # store[i].password) =>
                /\ store'[i].password # entered_password(last')
                /\ store'[i].password =
                      IF entered_password(last') = "" THEN None
                      ELSE hash_password(entered_password(last'))]_vars

\* The identity x is a telephone identity: it starts with '+' or 'tel:'.
phone_identity(x) ==
    /\ x # <<>>
    /\ \/ x[1] = "+"
       \/ Len(x) >= 4 /\ SubSeq(x, 1, 4) = <<"t","e","l",":">>

\* C26: a transfer_to_specialist call that has a destination number and a
\* room sends its request for the first remote participant, in the room's
\* order, whose identity starts with '+' or 'tel:'; if there is none, for
\* the first remote participant; and if there is no participant, or that
\* first identity is empty, it sends no request and returns the fallback
\* message.  Without a number or a room no request is sent.
C26_TransferParticipantChoice ==
    [][last'.op = "transfer_to_specialist" =>
          LET e == last'.env
              ps == e.participants
              phones == {i \in DOMAIN ps : phone_identity(ps[i])}
          IN  IF falsy(e.phone) \/ ~e.has_room THEN last'.request = NoRequest
              ELSE IF phones # {}
              THEN \E i \in phones : /\ \A j \in phones : i <= j
                                     /\ last'.request = <<ps[i]>>
              ELSE IF ps # <<>> /\ ps[1] # <<>>
              THEN last'.request = <<ps[1]>>
              ELSE /\ last'.request = NoRequest
                   /\ last'.result = MsgTransferEscalate]_vars

\* The caller's telephone identity is second in the room, after a
\* participant that has none, and the request names the caller.
C26_Witness ==
    /\ last.op = "transfer_to_specialist"
    /\ last.env.participants = << <<"a","g","e","n","t">>, <<"+","1","5","5","5">> >>
    /\ last.request = << <<"+","1","5","5","5">> >>
    /\ last.result = MsgTransferring

\* C27: after an unlock_account or a reset_password of the session has
\* succeeded and written the stored status, the status the session holds
\* for its account is the stored one, and it is the status the call
\* summary gives.
C27_CachedStatusFollowsOwnWrite ==
    (/\ last.sess \in Sessions
     /\ last.op \in MutatingTools
     /\ last.result \in {MsgUnlocked, MsgPasswordReset}
     /\ "account_status" \in last.wrote) =>
        LET s == last.sess IN
        /\ StoredStatusIs(s, user_data[s].account_status)
        /\ StoredStatusIs(s, call_summary(user_data[s]).args[4])

\* C28: when unlock_account returns its success message, the table has a row
\* with the session's pin whose status is 'active'; when reset_password
\* returns its success message, the table has a row with the session's pin
\* whose password is the new password; so neither reports success without
\* an account loaded or after the account's row is gone.
C28_SuccessMeansStored ==
    [][(last'.sess \in Sessions /\ last'.op \in MutatingTools) =>
          LET s == last'.sess
              rows == {i \in DOMAIN store' : store'[i].pin = user_data[s].pin}
          IN  /\ last'.result = MsgUnlocked =>
                    \E i \in rows : store'[i].account_status = "active"
              /\ last'.result = MsgPasswordReset =>
                    /\ ~falsy(user_data[s].pin)
                    /\ \E i \in rows : store'[i].password = last'.args[1]]_vars

\* C29: the worker creates at most one connection pool, and the global pool
\* that the tools of every call use is that one.
C29_OnePoolPerWorker ==
    /\ created <= 1
    /\ pool \in {NoPool, 1}

=============================================================================
